---- MODULE Spec2Model ----
(***************************************************************************)
(* Model of wordplay-solver: the package variant (src/src/wordplay_solver) *)
(* and the standalone variant (src/wordplay_solver.py).                    *)
(*                                                                         *)
(* A Python str is a sequence of one-character strings, a dict is the      *)
(* sequence of its <<key, value>> pairs in insertion order, an Optional is *)
(* <<>> (None) or <<v>>, and a set is a set whose iteration order is a     *)
(* nondeterministic choice of the action that iterates it.                 *)
(***************************************************************************)
EXTENDS Integers, Sequences, FiniteSets, TLC

VARIABLES words, pc, call, ret, file, session

vars == <<words, pc, call, ret, file, session>>

(***************************************************************************)
(* Bounds of the model.                                                    *)
(***************************************************************************)
\* the largest number of words a lexicon holds
MaxLexicon == 3
\* the longest availability string handed to get_words_with_letters
MaxAvailLen == 4
\* the largest argument handed to calculate_length_bonus
MaxBonusArg == 22
\* the longest run of one repeated character appended to a scored word
MaxPad == 21
\* the longest free prefix of a scored word
MaxPrefixLen == 1
\* the number of words of a lexicon of the view sessions
MaxViewLexicon == 6
\* the largest number of options in the [letter_values] section of a config
MaxConfigEntries == 2
\* the largest number of solver invocations of one program run
MaxQueries == 2
\* the longest string handed to parse_letter_input on its own
MaxParseLen == 4

(***************************************************************************)
(* Characters and strings.                                                 *)
(***************************************************************************)
LowerAlphabet ==
    <<"a","b","c","d","e","f","g","h","i","j","k","l","m",
      "n","o","p","q","r","s","t","u","v","w","x","y","z">>

UpperAlphabet ==
    <<"A","B","C","D","E","F","G","H","I","J","K","L","M",
      "N","O","P","Q","R","S","T","U","V","W","X","Y","Z">>

DigitChars == <<"0","1","2","3","4","5","6","7","8","9">>

Range(s) == {s[i] : i \in DOMAIN s}

IndexOf(s, x) == CHOOSE i \in DOMAIN s : s[i] = x

\* str.isalpha() of one character
IsAlpha(c) == c \in Range(LowerAlphabet) \cup Range(UpperAlphabet)

\* str.isdigit() of one character
IsDigit(c) == c \in Range(DigitChars)

\* str.isspace() of one character
IsSpace(c) == c = " "

\* str.lower() of one character
LowerChar(c) ==
    IF c \in Range(UpperAlphabet) THEN LowerAlphabet[IndexOf(UpperAlphabet, c)] ELSE c

\* str.lower()
Lower(s) == [i \in DOMAIN s |-> LowerChar(s[i])]

\* the code point order of the characters the model uses:
\* space, '-', digits, '=', upper case, lower case
CodeOrder == <<" ", "-">> \o DigitChars \o <<"=">> \o UpperAlphabet \o LowerAlphabet

Ord(c) == IndexOf(CodeOrder, c)

\* Python's str < str: lexicographic by code point, a proper prefix is smaller
RECURSIVE StrLess(_, _)
StrLess(a, b) ==
    IF b = <<>> THEN FALSE
    ELSE IF a = <<>> THEN TRUE
    ELSE IF a[1] # b[1] THEN Ord(a[1]) < Ord(b[1])
    ELSE StrLess(Tail(a), Tail(b))

\* int(num_str) of a non-empty run of digits
RECURSIVE IntOf(_)
IntOf(num_str) ==
    IF num_str = <<>> THEN 0
    ELSE 10 * IntOf(SubSeq(num_str, 1, Len(num_str) - 1))
         + (IndexOf(DigitChars, num_str[Len(num_str)]) - 1)

(***************************************************************************)
(* dict: the sequence of <<key, value>> pairs in insertion order.          *)
(***************************************************************************)
DictKeys(d) == [i \in DOMAIN d |-> d[i][1]]

DictHas(d, k) == \E i \in DOMAIN d : d[i][1] = k

\* d.get(k, default)
DictGet(d, k, default) ==
    IF DictHas(d, k) THEN d[CHOOSE i \in DOMAIN d : d[i][1] = k][2] ELSE default

\* d[k] = v
DictPut(d, k, v) ==
    IF DictHas(d, k)
    THEN [i \in DOMAIN d |-> IF d[i][1] = k THEN <<k, v>> ELSE d[i]]
    ELSE Append(d, <<k, v>>)

\* a key both dicts hold keeps the value of d1
DictMergeFirstWins(d1, d2) == d1 \o SelectSeq(d2, LAMBDA e : ~DictHas(d1, e[1]))

\* {**d1, **d2}: the keys of d1 in their order, with d2's value where d2 has
\* the key, then the keys only d2 has, in d2's order
DictMerge(d1, d2) ==
    [i \in DOMAIN d1 |-> <<d1[i][1], DictGet(d2, d1[i][1], d1[i][2])>>]
    \o SelectSeq(d2, LAMBDA e : ~DictHas(d1, e[1]))

\* collections.Counter(s) as a function on the characters of s
Counter(s) == [c \in Range(s) |-> Cardinality({i \in DOMAIN s : s[i] = c})]

\* Counter.get(c, 0)
CounterGet(cnt, c) == IF c \in DOMAIN cnt THEN cnt[c] ELSE 0

(***************************************************************************)
(* scoring.py                                                              *)
(***************************************************************************)
STANDARD_LETTER_VALUES ==
    << <<"a",1>>, <<"b",3>>, <<"c",3>>, <<"d",2>>, <<"e",1>>, <<"f",4>>, <<"g",2>>,
       <<"h",4>>, <<"i",1>>, <<"j",8>>, <<"k",5>>, <<"l",1>>, <<"m",3>>, <<"n",1>>,
       <<"o",1>>, <<"p",3>>, <<"q",10>>, <<"r",1>>, <<"s",1>>, <<"t",1>>, <<"u",1>>,
       <<"v",4>>, <<"w",4>>, <<"x",8>>, <<"y",4>>, <<"z",10>> >>

\* the dict literal of calculate_length_bonus, keys 0..20
length_bonuses ==
    [n \in 0..20 |->
        << 0, 0, 0, 0, 0, 5, 10, 15, 25, 35, 50, 65, 85, 105, 125,
           150, 175, 200, 230, 270, 320 >>[n + 1]]

\* a missing length falls back to 0 instead of the length-20 bonus
calculate_length_bonus_zero_default(word_length) ==
    IF word_length \in DOMAIN length_bonuses THEN length_bonuses[word_length] ELSE 0

\* the bonus stops growing at length 17
calculate_length_bonus_early_cap(word_length) ==
    IF word_length \in 0..17 THEN length_bonuses[word_length] ELSE length_bonuses[17]

calculate_length_bonus(word_length) ==
    IF word_length \in DOMAIN length_bonuses
    THEN length_bonuses[word_length]
    ELSE length_bonuses[20]

\* the digits from position i on, cut after the first
DigitRunOneDigit(letter_str, i) ==
    IF i <= Len(letter_str) /\ IsDigit(letter_str[i]) THEN <<letter_str[i]>> ELSE <<>>

\* parse_letter_input: the digits from position i on
RECURSIVE DigitRun(_, _)
DigitRun(letter_str, i) ==
    IF i <= Len(letter_str) /\ IsDigit(letter_str[i])
    THEN <<letter_str[i]>> \o DigitRun(letter_str, i + 1)
    ELSE <<>>

\* one pass of the while loop that keeps the value a letter already has
parse_letter_input_step_first_wins(letter_str, st) ==
    IF ~IsAlpha(letter_str[st.i])
    THEN [i |-> st.i + 1, letters |-> st.letters]
    ELSE LET char == LowerChar(letter_str[st.i])
             num_str == DigitRun(letter_str, st.i + 1)
             value == IF num_str # <<>> THEN IntOf(num_str)
                      ELSE DictGet(STANDARD_LETTER_VALUES, char, 1)
         IN [i |-> st.i + 1 + Len(num_str),
             letters |-> IF DictHas(st.letters, char) THEN st.letters
                         ELSE DictPut(st.letters, char, value)]

\* parse_letter_input: one pass of the while loop; st holds the loop
\* variables i (1-based) and letters
parse_letter_input_step(letter_str, st) ==
    IF ~IsAlpha(letter_str[st.i])
    THEN [i |-> st.i + 1, letters |-> st.letters]
    ELSE LET char == LowerChar(letter_str[st.i])
             num_str == DigitRun(letter_str, st.i + 1)
             value == IF num_str # <<>> THEN IntOf(num_str)
                      ELSE DictGet(STANDARD_LETTER_VALUES, char, 1)
         IN [i |-> st.i + 1 + Len(num_str),
             letters |-> DictPut(st.letters, char, value)]

\* parse_letter_input: the while loop
RECURSIVE parse_letter_input_loop(_, _)
parse_letter_input_loop(letter_str, st) ==
    IF st.i > Len(letter_str) THEN st.letters
    ELSE parse_letter_input_loop(letter_str, parse_letter_input_step(letter_str, st))

parse_letter_input(letter_str) ==
    parse_letter_input_loop(letter_str, [i |-> 1, letters |-> <<>>])

\* sum(letter_values.get(letter.lower(), 0) for letter in word if letter.isalpha()),
\* over the letters from position i on
RECURSIVE BaseScoreFrom(_, _, _)
BaseScoreFrom(word, letter_values, i) ==
    IF i > Len(word) THEN 0
    ELSE (IF IsAlpha(word[i]) THEN DictGet(letter_values, LowerChar(word[i]), 0) ELSE 0)
         + BaseScoreFrom(word, letter_values, i + 1)

BaseScore(word, letter_values) == BaseScoreFrom(word, letter_values, 1)

\* the base score looks the letter up without lower-casing it
RECURSIVE BaseScoreCaseSensitiveFrom(_, _, _)
BaseScoreCaseSensitiveFrom(word, letter_values, i) ==
    IF i > Len(word) THEN 0
    ELSE (IF IsAlpha(word[i]) THEN DictGet(letter_values, word[i], 0) ELSE 0)
         + BaseScoreCaseSensitiveFrom(word, letter_values, i + 1)

calculate_word_score_case_sensitive(word, letter_values) ==
    LET lv == IF letter_values = <<>> THEN STANDARD_LETTER_VALUES ELSE letter_values[1]
    IN BaseScoreCaseSensitiveFrom(word, lv, 1) + calculate_length_bonus(Len(word))

\* scoring.calculate_word_score; letter_values is an Optional dict
calculate_word_score(word, letter_values) ==
    LET lv == IF letter_values = <<>> THEN STANDARD_LETTER_VALUES ELSE letter_values[1]
        base_score == BaseScore(word, lv)
        length_bonus == calculate_length_bonus(Len(word))
    IN base_score + length_bonus

(***************************************************************************)
(* Config files.  The [letter_values] section of a config is the sequence  *)
(* of its <<option, value>> pairs, both strings; configparser hands the    *)
(* option names over in lower case.  An Optional config is <<>> when the   *)
(* path is missing, the file does not exist or it has no such section.     *)
(***************************************************************************)
\* str.isdigit() of a string: not empty and digits only
IsDigitString(v) == v # <<>> /\ \A i \in DOMAIN v : IsDigit(v[i])

\* whether int(v) succeeds: an optional sign and a run of digits
IsIntLiteral(v) ==
    /\ v # <<>>
    /\ IF v[1] \in {"+", "-"} THEN IsDigitString(Tail(v)) ELSE IsDigitString(v)

\* int(v) of a string int() accepts
IntLiteral(v) ==
    CASE v[1] = "-" -> 0 - IntOf(Tail(v))
      [] v[1] = "+" -> IntOf(Tail(v))
      [] OTHER -> IntOf(v)

\* get_letter_values: the loop over the options; st holds the position i in
\* the section and letter_values
RECURSIVE get_letter_values_loop(_, _)
get_letter_values_loop(section, st) ==
    IF st.i > Len(section) THEN st.letter_values
    ELSE LET letter == section[st.i][1]
             value == section[st.i][2]
         IN get_letter_values_loop(
               section,
               [i |-> st.i + 1,
                letter_values |->
                    IF Len(letter) = 1 /\ IsAlpha(letter[1]) /\ IsIntLiteral(value)
                    THEN DictPut(st.letter_values, LowerChar(letter[1]),
                                 IntLiteral(value))
                    ELSE st.letter_values])

\* scoring.get_letter_values
get_letter_values(config) ==
    IF config = <<>> THEN STANDARD_LETTER_VALUES
    ELSE get_letter_values_loop(config[1],
                                [i |-> 1, letter_values |-> STANDARD_LETTER_VALUES])

\* load_letter_values: the dict comprehension; st holds the position i in the
\* section and the dict built so far
RECURSIVE load_letter_values_loop(_, _)
load_letter_values_loop(section, st) ==
    IF st.i > Len(section) THEN st.letter_values
    ELSE LET k == section[st.i][1]
             v == section[st.i][2]
         IN load_letter_values_loop(
               section,
               [i |-> st.i + 1,
                letter_values |->
                    IF Len(k) = 1 /\ IsAlpha(k[1]) /\ IsDigitString(v)
                    THEN DictPut(st.letter_values, LowerChar(k[1]), IntOf(v))
                    ELSE st.letter_values])

\* standalone load_letter_values
load_letter_values(config) ==
    IF config = <<>> THEN <<>>
    ELSE load_letter_values_loop(config[1], [i |-> 1, letter_values |-> <<>>])

(***************************************************************************)
(* list.sort(key=...): a stable sort of the items decorated with their     *)
(* keys.  A key is <<-score, -length>> or <<-score, -length, word>>.       *)
(***************************************************************************)
\* Python's tuple < tuple on two keys of the same shape
KeyLess(k1, k2) ==
    \/ k1[1] < k2[1]
    \/ /\ k1[1] = k2[1]
       /\ \/ k1[2] < k2[2]
          \/ /\ k1[2] = k2[2]
             /\ Len(k1) >= 3
             /\ StrLess(k1[3], k2[3])

\* place x behind every item whose key is not greater than x's
RECURSIVE SortedInsert(_, _)
SortedInsert(s, x) ==
    IF s = <<>> THEN <<x>>
    ELSE IF KeyLess(x.key, s[1].key) THEN <<x>> \o s
    ELSE <<s[1]>> \o SortedInsert(Tail(s), x)

RECURSIVE StableSort(_)
StableSort(s) ==
    IF s = <<>> THEN <<>>
    ELSE SortedInsert(StableSort(SubSeq(s, 1, Len(s) - 1)), s[Len(s)])

Undecorate(s) == [i \in DOMAIN s |-> s[i].item]

\* the orders in which a set can be iterated: every sequence that holds each
\* element exactly once
RECURSIVE Enumerations(_)
Enumerations(S) ==
    IF S = {} THEN {<<>>}
    ELSE UNION {{<<x>> \o rest : rest \in Enumerations(S \ {x})} : x \in S}

\* seq[:n]
Take(seq, n) == SubSeq(seq, 1, IF Len(seq) < n THEN Len(seq) ELSE n)

\* [x for x in seq if x in keep]
FilterSeq(seq, keep) == SelectSeq(seq, LAMBDA x : x \in keep)

\* the truth value of an Optional dict: None and {} are false
Truthy(opt) == opt # <<>> /\ opt[1] # <<>>

(***************************************************************************)
(* dictionary.py and the standalone Dictionary                             *)
(***************************************************************************)
\* all(word_count[char] <= letter_count.get(char, 0) for char in word_count)
Fits(word, letter_count) ==
    LET word_count == Counter(word)
    IN \A char \in DOMAIN word_count :
          word_count[char] <= CounterGet(letter_count, char)

\* package Dictionary.get_words_with_letters
pkg_get_words_with_letters(lexicon, letters) ==
    LET letter_count == Counter(Lower(letters))
    IN {word \in lexicon : Fits(word, letter_count)}

\* standalone Dictionary.get_words_with_letters
sa_get_words_with_letters(lexicon, letters) ==
    LET letter_count == Counter(Lower(letters))
    IN {word \in lexicon : ~(Len(word) < 4) /\ Fits(word, letter_count)}

(***************************************************************************)
(* solver.py                                                               *)
(***************************************************************************)
\* inline values combined with the config values (both variants)
merge_letter_values(letters, custom_values) ==
    LET inline_values == parse_letter_input(letters)
    IN IF Truthy(custom_values)
       THEN DictMerge(inline_values, custom_values[1])
       ELSE inline_values

\* the words the package solver takes as formable
pkg_valid_words(lexicon, letters, custom_values) ==
    pkg_get_words_with_letters(lexicon,
                               DictKeys(merge_letter_values(letters, custom_values)))

\* the loop of find_best_word over the words in iteration order
RECURSIVE find_best_word_loop(_, _, _, _)
find_best_word_loop(order, letter_values, best_word, best_score) ==
    IF order = <<>> THEN <<best_word, best_score>>
    ELSE LET word == order[1]
             score == calculate_word_score(word, <<letter_values>>)
         IN IF score > best_score \/ (score = best_score /\ Len(word) > Len(best_word))
            THEN find_best_word_loop(Tail(order), letter_values, word, score)
            ELSE find_best_word_loop(Tail(order), letter_values, best_word, best_score)

\* WordSolver.find_best_word; order is the iteration order of valid_words
find_best_word(lexicon, letters, custom_values, order) ==
    LET letter_values == merge_letter_values(letters, custom_values)
        valid_words == pkg_valid_words(lexicon, letters, custom_values)
    IN IF valid_words = {} THEN << <<>>, 0 >>
       ELSE find_best_word_loop(order, letter_values, <<>>, -1)

\* WordSolver.find_all_words_with_scores; order is the iteration order of valid_words
find_all_words_with_scores(lexicon, letters, custom_values, order) ==
    LET letter_values == merge_letter_values(letters, custom_values)
        valid_words == pkg_valid_words(lexicon, letters, custom_values)
        word_scores ==
            [i \in DOMAIN order |->
                <<order[i], calculate_word_score(order[i], <<letter_values>>),
                  Len(order[i])>>]
        decorated ==
            [i \in DOMAIN word_scores |->
                [key |-> <<-word_scores[i][2], -word_scores[i][3]>>,
                 item |-> word_scores[i]]]
    IN IF valid_words = {} THEN <<>>
       ELSE Undecorate(StableSort(decorated))

(***************************************************************************)
(* wordplay_solver.py (standalone)                                         *)
(***************************************************************************)
\* standalone WordSolver.calculate_word_score
sa_calculate_word_score(word, letter_values) == BaseScore(word, letter_values)

\* the first position >= i at which 's=' starts, or 0
RECURSIVE FindMarker(_, _)
FindMarker(s, i) ==
    IF i + 1 > Len(s) THEN 0
    ELSE IF s[i] = "s" /\ s[i + 1] = "=" THEN i
    ELSE FindMarker(s, i + 1)

\* str.strip()
RECURSIVE LStrip(_)
LStrip(s) == IF s # <<>> /\ IsSpace(s[1]) THEN LStrip(Tail(s)) ELSE s

RECURSIVE RStrip(_)
RStrip(s) ==
    IF s # <<>> /\ IsSpace(s[Len(s)]) THEN RStrip(SubSeq(s, 1, Len(s) - 1)) ELSE s

Strip(s) == RStrip(LStrip(s))

\* letters.split('s=')[0] and [1], for letters that hold the marker
SplitPart0(letters) == SubSeq(letters, 1, FindMarker(letters, 1) - 1)

SplitPart1(letters) ==
    LET rest == SubSeq(letters, FindMarker(letters, 1) + 2, Len(letters))
        next == FindMarker(rest, 1)
    IN IF next = 0 THEN rest ELSE SubSeq(rest, 1, next - 1)

\* one pass of the constraint loop that keeps the letter a position already has
parse_constraints_step_first_wins(constraint_str, st) ==
    IF IsAlpha(constraint_str[st.i])
    THEN LET char == LowerChar(constraint_str[st.i])
             pos_str == DigitRun(constraint_str, st.i + 1)
             position == IntOf(pos_str)
         IN [i |-> st.i + 1 + Len(pos_str),
             position_constraints |->
                 IF pos_str # <<>> /\ position > 0
                    /\ ~DictHas(st.position_constraints, position)
                 THEN DictPut(st.position_constraints, position, char)
                 ELSE st.position_constraints]
    ELSE [i |-> st.i + 1, position_constraints |-> st.position_constraints]

\* one pass of the constraint loop that reads a letter without a usable
\* position as a constraint on position 1
parse_constraints_step_default_first(constraint_str, st) ==
    IF IsAlpha(constraint_str[st.i])
    THEN LET char == LowerChar(constraint_str[st.i])
             pos_str == DigitRun(constraint_str, st.i + 1)
             position == IF IntOf(pos_str) > 0 THEN IntOf(pos_str) ELSE 1
         IN [i |-> st.i + 1 + Len(pos_str),
             position_constraints |-> DictPut(st.position_constraints, position, char)]
    ELSE [i |-> st.i + 1, position_constraints |-> st.position_constraints]

\* the constraint loop of find_best_words: one pass; st holds the loop
\* variables i (1-based) and position_constraints
parse_constraints_step(constraint_str, st) ==
    IF IsAlpha(constraint_str[st.i])
    THEN LET char == LowerChar(constraint_str[st.i])
             pos_str == DigitRun(constraint_str, st.i + 1)
             position == IntOf(pos_str)
         IN [i |-> st.i + 1 + Len(pos_str),
             position_constraints |->
                 IF pos_str # <<>> /\ position > 0
                 THEN DictPut(st.position_constraints, position, char)
                 ELSE st.position_constraints]
    ELSE [i |-> st.i + 1, position_constraints |-> st.position_constraints]

\* the constraint loop of find_best_words
RECURSIVE parse_constraints_loop(_, _)
parse_constraints_loop(constraint_str, st) ==
    IF st.i > Len(constraint_str) THEN st.position_constraints
    ELSE parse_constraints_loop(constraint_str,
                                parse_constraints_step(constraint_str, st))

\* the position constraints find_best_words reads from its argument
position_constraints_of(letters) ==
    IF FindMarker(letters, 1) # 0
    THEN parse_constraints_loop(Strip(SplitPart1(letters)),
                                [i |-> 1, position_constraints |-> <<>>])
    ELSE <<>>

\* the free letters find_best_words keeps of its argument
free_letters_of(letters) ==
    IF FindMarker(letters, 1) # 0 THEN Strip(SplitPart0(letters)) ELSE letters

\* ''.join([c.lower() for c in letters if c.isalpha()])
input_letters_of(letters) ==
    Lower(FilterSeq(letters, Range(LowerAlphabet) \cup Range(UpperAlphabet)))

\* the loop that gives every input letter a value; st holds the position i
\* in input_letters and letter_values
RECURSIVE fill_missing_values_loop(_, _)
fill_missing_values_loop(input_letters, st) ==
    IF st.i > Len(input_letters) THEN st.letter_values
    ELSE fill_missing_values_loop(
            input_letters,
            [i |-> st.i + 1,
             letter_values |->
                 IF ~DictHas(st.letter_values, input_letters[st.i])
                 THEN DictPut(st.letter_values, input_letters[st.i],
                              DictGet(STANDARD_LETTER_VALUES, input_letters[st.i], 1))
                 ELSE st.letter_values])

fill_missing_values(input_letters, letter_values) ==
    fill_missing_values_loop(input_letters, [i |-> 1, letter_values |-> letter_values])

\* the standalone variant lets the inline values go before custom_values
sa_letter_values_inline_first(letters, custom_values) ==
    LET free == free_letters_of(letters)
    IN fill_missing_values(
          input_letters_of(free),
          IF Truthy(custom_values)
          THEN DictMergeFirstWins(parse_letter_input(free), custom_values[1])
          ELSE parse_letter_input(free))

\* the letter values find_best_words scores with
sa_letter_values(letters, custom_values) ==
    LET free == free_letters_of(letters)
    IN fill_missing_values(input_letters_of(free),
                           merge_letter_values(free, custom_values))

\* a position beyond the end of the word is let through
satisfies_constraints_beyond_end(word, position_constraints) ==
    \A i \in DOMAIN position_constraints :
        LET pos == position_constraints[i][1]
            char == position_constraints[i][2]
        IN pos > Len(word) \/ word[pos] = char

\* one passed position constraint is enough
satisfies_constraints_any(word, position_constraints) ==
    \E i \in DOMAIN position_constraints :
        LET pos == position_constraints[i][1]
            char == position_constraints[i][2]
        IN ~(pos > Len(word) \/ word[pos] # char)

\* whether a word passes every position constraint
satisfies_constraints(word, position_constraints) ==
    \A i \in DOMAIN position_constraints :
        LET pos == position_constraints[i][1]
            char == position_constraints[i][2]
        IN ~(pos > Len(word) \/ word[pos] # char)

\* the set find_best_words iterates: the matcher's result
sa_valid_words(lexicon, letters) ==
    sa_get_words_with_letters(lexicon, input_letters_of(free_letters_of(letters)))

\* the sorted word_scores list of find_best_words; order is the iteration
\* order of the matcher's result
sa_word_scores(lexicon, letters, custom_values, order) ==
    LET position_constraints == position_constraints_of(letters)
        letter_values == sa_letter_values(letters, custom_values)
        valid_words ==
            IF position_constraints # <<>>
            THEN FilterSeq(order, {w \in Range(order) :
                                     satisfies_constraints(w, position_constraints)})
            ELSE order
        word_scores ==
            [i \in DOMAIN valid_words |->
                <<valid_words[i], sa_calculate_word_score(valid_words[i], letter_values),
                  Len(valid_words[i])>>]
        decorated ==
            [i \in DOMAIN word_scores |->
                [key |-> <<-word_scores[i][2], -word_scores[i][3], word_scores[i][1]>>,
                 item |-> word_scores[i]]]
    IN Undecorate(StableSort(decorated))

\* max(l for _, _, l in word_scores)
MaxLength(word_scores) ==
    CHOOSE l \in {word_scores[i][3] : i \in DOMAIN word_scores} :
        \A i \in DOMAIN word_scores : word_scores[i][3] <= l

\* [(w, s) for w, s, l in word_scores if l == length]
RECURSIVE OfLength(_, _)
OfLength(word_scores, length) ==
    IF word_scores = <<>> THEN <<>>
    ELSE (IF word_scores[1][3] = length
          THEN << <<word_scores[1][1], word_scores[1][2]>> >> ELSE <<>>)
         \o OfLength(Tail(word_scores), length)

\* the by_length dict with two entries per length instead of five
RECURSIVE by_length_from_top_two(_, _, _, _)
by_length_from_top_two(word_scores, length, max_length, by_length) ==
    IF length > max_length THEN by_length
    ELSE LET length_words == OfLength(word_scores, length)
         IN by_length_from_top_two(word_scores, length + 1, max_length,
                                   IF length_words # <<>>
                                   THEN DictPut(by_length, length, Take(length_words, 2))
                                   ELSE by_length)

\* the by_length dict built for the lengths from length to max_length
RECURSIVE by_length_from(_, _, _, _)
by_length_from(word_scores, length, max_length, by_length) ==
    IF length > max_length THEN by_length
    ELSE LET length_words == OfLength(word_scores, length)
         IN by_length_from(word_scores, length + 1, max_length,
                           IF length_words # <<>>
                           THEN DictPut(by_length, length, Take(length_words, 5))
                           ELSE by_length)

\* standalone WordSolver.find_best_words
find_best_words(lexicon, letters, custom_values, order) ==
    LET word_scores == sa_word_scores(lexicon, letters, custom_values, order)
        top_words == [i \in DOMAIN Take(word_scores, 5) |->
                         <<word_scores[i][1], word_scores[i][2]>>]
    IN IF word_scores = <<>>
       THEN [top_words |-> <<>>, by_length |-> <<>>]
       ELSE [top_words |-> top_words,
             by_length |-> by_length_from(word_scores, 4, MaxLength(word_scores), <<>>)]

(***************************************************************************)
(* Loading the dictionary.  The file is <<>> when it does not exist and    *)
(* <<lines>> when it does; a file of no lines has size zero.  env is what  *)
(* the world does to the one download attempt of a load:                   *)
(*   download  "ok", or the step that raises: "urlopen_fails" (the         *)
(*             request), "read_fails" (reading or decoding the response),  *)
(*             "mkdir_fails", "open_fails", "write_fails" (creating the    *)
(*             directory, opening the file for writing, writing it)        *)
(*   body      the lines of the response                                   *)
(*   written   how many lines reach the file before a failing write        *)
(*   has_path  whether --dict was given (the standalone script has no      *)
(*             default path)                                               *)
(***************************************************************************)
\* str.isalpha() of a string
IsAlphaString(v) == v # <<>> /\ \A i \in DOMAIN v : IsAlpha(v[i])

\* {line.strip().lower() for line in f if line.strip().isalpha()}
words_of_lines(lines) ==
    {Lower(Strip(lines[i])) : i \in {k \in DOMAIN lines : IsAlphaString(Strip(lines[k]))}}

\* dictionary.ensure_dictionary_exists: the file after the try block.  The
\* with statement opens the URL first and the file second; opening the file
\* with 'wb' truncates it before the response is read.
pkg_file_after_download(before, env) ==
    CASE env.download \in {"mkdir_fails", "urlopen_fails", "open_fails"} -> before
      [] env.download = "read_fails" -> << <<>> >>
      [] env.download = "write_fails" -> << Take(env.body, env.written) >>
      [] OTHER -> << env.body >>

\* dictionary.ensure_dictionary_exists: whether it raises, and the file it leaves
ensure_dictionary_exists(before, env) ==
    LET after == pkg_file_after_download(before, env)
    IN IF env.download # "ok" /\ after = <<>>
       THEN [raised |-> TRUE, message |-> "Failed to download dictionary", file |-> after]
       ELSE IF after = <<>> \/ after[1] = <<>>
       THEN [raised |-> TRUE, message |-> "Dictionary file is empty or could not be created",
             file |-> after]
       ELSE [raised |-> FALSE, message |-> "", file |-> after]

\* dictionary.load_dictionary, which Dictionary.__init__ stores as self.words
load_dictionary(before, env) ==
    LET ensured == ensure_dictionary_exists(before, env)
    IN [raised |-> ensured.raised, message |-> ensured.message, file |-> ensured.file,
        words |-> IF ensured.raised THEN {} ELSE words_of_lines(ensured.file[1])]

\* sorted(words) of a set of strings
RECURSIVE SortedWords(_)
SortedWords(S) ==
    IF S = {} THEN <<>>
    ELSE LET least == CHOOSE w \in S : \A v \in S \ {w} : StrLess(w, v)
         IN <<least>> \o SortedWords(S \ {least})

\* standalone Dictionary._load_dictionary: the words read from the file
sa_file_words(before, env) ==
    IF env.has_path /\ before # <<>> THEN words_of_lines(before[1]) ELSE {}

\* standalone Dictionary._load_dictionary: the file after the save
sa_file_after_save(before, env, all_words) ==
    CASE ~env.has_path -> before
      [] env.download \in {"mkdir_fails", "open_fails"} -> before
      [] env.download = "write_fails" -> << Take(SortedWords(all_words), env.written) >>
      [] OTHER -> << SortedWords(all_words) >>

\* standalone Dictionary._load_dictionary, which Dictionary.__init__ stores
\* as self.words
sa_load_dictionary(before, env) ==
    LET from_file == sa_file_words(before, env)
    IN IF env.download \in {"urlopen_fails", "read_fails"}
       THEN IF from_file = {}
            THEN [raised |-> TRUE, message |-> "No dictionary available", file |-> before,
                  words |-> {}]
            ELSE [raised |-> FALSE, message |-> "", file |-> before, words |-> from_file]
       ELSE LET all_words == from_file \cup words_of_lines(env.body)
            IN [raised |-> FALSE, message |-> "",
                file |-> sa_file_after_save(before, env, all_words),
                words |-> all_words]

(***************************************************************************)
(* __main__.py                                                             *)
(***************************************************************************)
\* the grouping loop of display_comprehensive_results; st holds the position
\* i in word_scores and the defaultdict words_by_length
RECURSIVE words_by_length_loop(_, _)
words_by_length_loop(word_scores, st) ==
    IF st.i > Len(word_scores) THEN st.words_by_length
    ELSE LET entry == word_scores[st.i]
             length == entry[3]
         IN words_by_length_loop(
               word_scores,
               [i |-> st.i + 1,
                words_by_length |->
                    IF length >= 4
                    THEN DictPut(st.words_by_length, length,
                                 Append(DictGet(st.words_by_length, length, <<>>), entry))
                    ELSE st.words_by_length])

words_by_length_of(word_scores) ==
    words_by_length_loop(word_scores, [i |-> 1, words_by_length |-> <<>>])

\* sorted(keys) of a set of ints
RECURSIVE SortedInts(_)
SortedInts(S) ==
    IF S = {} THEN <<>>
    ELSE LET least == CHOOSE x \in S : \A y \in S : x <= y
         IN <<least>> \o SortedInts(S \ {least})

\* what display_comprehensive_results prints: the top 5 entries, and per length
\* in sorted order the first 5 entries of that length
display_comprehensive_results(word_scores) ==
    IF word_scores = <<>>
    THEN [top_5_scores |-> <<>>, by_length |-> <<>>]
    ELSE LET words_by_length == words_by_length_of(word_scores)
             lengths == SortedInts(Range(DictKeys(words_by_length)))
         IN [top_5_scores |-> Take(word_scores, 5),
             by_length |->
                 [k \in DOMAIN lengths |->
                     <<lengths[k], Take(DictGet(words_by_length, lengths[k], <<>>), 5)>>]]

\* str.upper() of a character and of a string
UpperChar(c) ==
    IF c \in Range(LowerAlphabet) THEN UpperAlphabet[IndexOf(LowerAlphabet, c)] ELSE c

Upper(s) == [i \in DOMAIN s |-> UpperChar(s[i])]

\* the positions of the dots of a selection
DotsOf(selection) == {i \in DOMAIN selection : selection[i] = "."}

\* parse_word_selection: None, or the selected word in upper case
parse_word_selection(selection, top_5_scores, words_by_length) ==
    IF IsDigitString(selection)
    THEN LET index == IntOf(selection) - 1
         IN IF 0 <= index /\ index < Len(top_5_scores)
            THEN << Upper(top_5_scores[index + 1][1]) >>
            ELSE <<>>
    ELSE IF Cardinality(DotsOf(selection)) = 1
    THEN LET dot == CHOOSE i \in DotsOf(selection) : TRUE
             part0 == SubSeq(selection, 1, dot - 1)
             part1 == SubSeq(selection, dot + 1, Len(selection))
         IN IF IsDigitString(part0) /\ IsDigitString(part1)
            THEN LET length == IntOf(part0)
                     order == IntOf(part1) - 1
                     group == DictGet(words_by_length, length, <<>>)
                 IN IF DictHas(words_by_length, length) /\ 0 <= order /\ order < Len(group)
                    THEN << Upper(group[order + 1][1]) >>
                    ELSE <<>>
            ELSE <<>>
    ELSE <<>>

(***************************************************************************)
(* Inputs.                                                                 *)
(***************************************************************************)
SeqsUpTo(S, n) == UNION {[1..k -> S] : k \in 0..n}

Rep(c, k) == [i \in 1..k |-> c]

\* the words a lexicon is drawn from: lower case and alphabetic, as
\* load_dictionary keeps them
WordUniverse ==
    { <<"t","e","a">>, <<"e","a","s","t">>, <<"s","e","a","t">>,
      <<"t","e","s","t">>, <<"b","e","a","s","t">>, <<"s","t","a","t","e">> }

Lexicons == {L \in SUBSET WordUniverse : Cardinality(L) <= MaxLexicon}

\* availability strings handed to the matchers
AvailStrings == SeqsUpTo({"a", "e", "s", "t"}, MaxAvailLen)

\* raw query strings handed to the solver entry points
QueryInputs ==
    { <<>>,
      <<"1"," ","2">>,
      <<"t","e","a">>,
      <<"e","a","s","t">>,
      <<"E","A","S","T">>,
      <<"t","e","s","t">>,
      <<"s","t","a","t","e">>,
      <<"b","e","a","s","t">>,
      <<"e","5","a","s","t">>,
      <<"t","2","e","s","t">>,
      <<"b","0","e","a","s","t","9">>,
      <<"e","a","s","t"," ","s","=","s","1","e","2">>,
      <<"e","a","s","t"," ","s","=","e","1","s","1">>,
      <<"e","a","s","t"," ","s","=","s","1","e","1">>,
      <<"e","a","s","t"," ","s","=","e","0","0","s","1","t">>,
      <<"e","a","s","t"," ","s","=","e","0","t">>,
      <<"e","a","s","t"," ","s","=","e","9">>,
      <<"b","e","a","s","t"," ","s","=","t","5">>,
      <<"t","e","s","t","s","=","t","1">>,
      <<"s","t","a","t","e"," ","s","=">> }

\* the config of test_solver.py laid over the standard values
TestConfigValues ==
    DictMerge(STANDARD_LETTER_VALUES,
              << <<"a",10>>, <<"b",2>>, <<"c",2>>, <<"d",2>>, <<"e",10>> >>)

\* custom_values: None, {} (standalone main without --config), the entries of
\* a config file (load_letter_values), and the full tables of get_letter_values
CustomChoices ==
    { <<>>,
      << <<>> >>,
      << << <<"a",10>>, <<"b",2>>, <<"e",10>> >> >>,
      << STANDARD_LETTER_VALUES >>,
      << TestConfigValues >> }

ScoreChars == {"a", "A", "z", "-"}

\* words handed to calculate_word_score: a free prefix and a run of one character
ScoreWords ==
    {p \o Rep(c, k) : p \in SeqsUpTo(ScoreChars, MaxPrefixLen),
                      c \in ScoreChars, k \in 0..MaxPad}

\* letter_values handed to calculate_word_score
ScoreTables ==
    { <<>>, << <<>> >>, << << <<"a",2>>, <<"b",3>> >> >> }

NoCall ==
    [op |-> "none", letters |-> <<>>, custom |-> <<>>, word |-> <<>>, n |-> 0,
     config |-> <<>>,
     env |-> [has_path |-> FALSE, before |-> <<>>, download |-> "ok",
              body |-> <<>>, written |-> 0]]

\* what a call returned, by the kind of value: a set of words (the matchers),
\* a number (the scoring functions), the pair of find_best_word, the list of
\* find_all_words_with_scores, the dict of find_best_words, the two views
\* display_comprehensive_results prints, a letter-value dict, the word
\* parse_word_selection returns, whether the call raised
NoRet ==
    [matched |-> {}, value |-> 0, best |-> << <<>>, 0 >>, ranked |-> <<>>,
     result |-> [top_words |-> <<>>, by_length |-> <<>>],
     view |-> [top_5_scores |-> <<>>, by_length |-> <<>>],
     table |-> <<>>, selected |-> <<>>, raised |-> FALSE]

\* the dictionary file on disk: <<>> when it does not exist, else <<lines>>
NoFile == <<>>

\* a run of one of the two programs: which one (variant), the mode main chose,
\* whether a capture window was selected, the custom_values main passes on,
\* args.letters, what the world did to the dictionary load (env, with the file
\* as it was before), the line last read at the "Enter letters" prompt, what
\* the world did to the last step (a line typed, end of input, Ctrl+C, an
\* exception, or nothing), the number of solver invocations, what was printed
\* since that prompt, and the exit status (<<>> while running).  Here no
\* program is running.
NoSession ==
    [variant |-> "none", interactive |-> FALSE, window |-> FALSE,
     custom_values |-> <<>>, letters |-> <<>>,
     env |-> [has_path |-> FALSE, before |-> <<>>, download |-> "ok",
              body |-> <<>>, written |-> 0],
     user_input |-> <<>>, event |-> "none", queries |-> 0, printed |-> <<>>,
     exit |-> <<>>]

(***************************************************************************)
(* The session: a lexicon is loaded once, then operations are called one   *)
(* at a time and return.                                                   *)
(***************************************************************************)
Init ==
    /\ words \in Lexicons
    /\ pc = "idle"
    /\ call = NoCall
    /\ ret = NoRet
    /\ file = NoFile
    /\ session = NoSession

PkgGetWordsWithLetters ==
    /\ pc = "idle"
    /\ \E letters \in AvailStrings :
          /\ call' = [NoCall EXCEPT !.op = "pkg_get_words_with_letters",
                                    !.letters = letters]
          /\ ret' = [NoRet EXCEPT !.matched = pkg_get_words_with_letters(words, letters)]
    /\ pc' = "done"
    /\ UNCHANGED <<words, file, session>>

SaGetWordsWithLetters ==
    /\ pc = "idle"
    /\ \E letters \in AvailStrings :
          /\ call' = [NoCall EXCEPT !.op = "sa_get_words_with_letters",
                                    !.letters = letters]
          /\ ret' = [NoRet EXCEPT !.matched = sa_get_words_with_letters(words, letters)]
    /\ pc' = "done"
    /\ UNCHANGED <<words, file, session>>

CalculateLengthBonus ==
    /\ pc = "idle"
    /\ \E n \in 0..MaxBonusArg :
          /\ call' = [NoCall EXCEPT !.op = "calculate_length_bonus", !.n = n]
          /\ ret' = [NoRet EXCEPT !.value = calculate_length_bonus(n)]
    /\ pc' = "done"
    /\ UNCHANGED <<words, file, session>>

CalculateWordScore ==
    /\ pc = "idle"
    /\ \E word \in ScoreWords, letter_values \in ScoreTables :
          /\ call' = [NoCall EXCEPT !.op = "calculate_word_score",
                                    !.word = word, !.custom = letter_values]
          /\ ret' = [NoRet EXCEPT !.value = calculate_word_score(word, letter_values)]
    /\ pc' = "done"
    /\ UNCHANGED <<words, file, session>>

FindBestWord ==
    /\ pc = "idle"
    /\ \E letters \in QueryInputs, custom_values \in CustomChoices :
          \E order \in Enumerations(pkg_valid_words(words, letters, custom_values)) :
             /\ call' = [NoCall EXCEPT !.op = "find_best_word",
                                       !.letters = letters, !.custom = custom_values]
             /\ ret' = [NoRet EXCEPT
                          !.best = find_best_word(words, letters, custom_values, order)]
    /\ pc' = "done"
    /\ UNCHANGED <<words, file, session>>

FindAllWordsWithScores ==
    /\ pc = "idle"
    /\ \E letters \in QueryInputs, custom_values \in CustomChoices :
          \E order \in Enumerations(pkg_valid_words(words, letters, custom_values)) :
             /\ call' = [NoCall EXCEPT !.op = "find_all_words_with_scores",
                                       !.letters = letters, !.custom = custom_values]
             /\ ret' = [NoRet EXCEPT
                          !.ranked = find_all_words_with_scores(words, letters,
                                                                custom_values, order)]
    /\ pc' = "done"
    /\ UNCHANGED <<words, file, session>>

FindBestWords ==
    /\ pc = "idle"
    /\ \E letters \in QueryInputs, custom_values \in CustomChoices :
          \E order \in Enumerations(sa_valid_words(words, letters)) :
             /\ call' = [NoCall EXCEPT !.op = "find_best_words",
                                       !.letters = letters, !.custom = custom_values]
             /\ ret' = [NoRet EXCEPT
                          !.result = find_best_words(words, letters, custom_values, order)]
    /\ pc' = "done"
    /\ UNCHANGED <<words, file, session>>

\* the call returns to its caller
Return ==
    /\ pc = "done"
    /\ pc' = "idle"
    /\ call' = NoCall
    /\ ret' = NoRet
    /\ UNCHANGED <<words, file, session>>

Next ==
    \/ PkgGetWordsWithLetters
    \/ SaGetWordsWithLetters
    \/ FindBestWord
    \/ FindAllWordsWithScores
    \/ FindBestWords
    \/ Return

Spec == Init /\ [][Next]_vars

(***************************************************************************)
(* The functions of scoring.py called on their own: they read no lexicon.  *)
(***************************************************************************)
ScoringInit ==
    /\ words = {}
    /\ pc = "idle"
    /\ call = NoCall
    /\ ret = NoRet
    /\ file = NoFile
    /\ session = NoSession

ScoringNext ==
    \/ CalculateLengthBonus
    \/ CalculateWordScore
    \/ Return

ScoringSpec == ScoringInit /\ [][ScoringNext]_vars

(***************************************************************************)
(* Sessions over a lexicon large enough for the views to cut their lists.  *)
(***************************************************************************)
\* the words the larger lexicons are drawn from
ViewUniverse ==
    { <<"t","e","a">>, <<"b","e","s","t">>, <<"e","a","s","t">>, <<"e","a","t","s">>,
      <<"s","a","t","e">>, <<"s","e","a","t">>, <<"t","e","a","s">>,
      <<"b","e","a","s","t">> }

ViewLexicons == {L \in SUBSET ViewUniverse : Cardinality(L) = MaxViewLexicon}

\* the queries of the view sessions, and the custom_values of the standalone
\* ones: None and the entries of a config file
ViewQueries ==
    { <<>>,
      <<"t","e","a">>,
      <<"e","a","s","t">>,
      <<"e","5","a","s","t">>,
      <<"b","e","a","s","t">> }

ViewCustomChoices == { <<>>, << << <<"a",10>>, <<"b",2>>, <<"e",10>> >> >> }

ViewInit ==
    /\ words \in ViewLexicons
    /\ pc = "idle"
    /\ call = NoCall
    /\ ret = NoRet
    /\ file = NoFile
    /\ session = NoSession

\* one pass of the package's interactive_loop: the letters typed are ranked
\* with custom_values = None and the result is displayed
DisplayComprehensiveResults ==
    /\ pc = "idle"
    /\ \E letters \in ViewQueries :
          \E order \in Enumerations(pkg_valid_words(words, letters, <<>>)) :
             LET word_scores == find_all_words_with_scores(words, letters, <<>>, order)
             IN /\ call' = [NoCall EXCEPT !.op = "display_comprehensive_results",
                                          !.letters = letters]
                /\ ret' = [NoRet EXCEPT
                             !.ranked = word_scores,
                             !.view = display_comprehensive_results(word_scores)]
    /\ pc' = "done"
    /\ UNCHANGED <<words, file, session>>

\* find_best_words called over a larger lexicon
FindBestWordsView ==
    /\ pc = "idle"
    /\ \E letters \in ViewQueries, custom_values \in ViewCustomChoices :
          \E order \in Enumerations(sa_valid_words(words, letters)) :
             /\ call' = [NoCall EXCEPT !.op = "find_best_words",
                                       !.letters = letters, !.custom = custom_values]
             /\ ret' = [NoRet EXCEPT
                          !.result = find_best_words(words, letters, custom_values, order)]
    /\ pc' = "done"
    /\ UNCHANGED <<words, file, session>>

ViewNext ==
    \/ FindBestWordsView
    \/ DisplayComprehensiveResults
    \/ Return

ViewSpec == ViewInit /\ [][ViewNext]_vars

(***************************************************************************)
(* The functions that build letter-value dicts, called on their own.       *)
(***************************************************************************)
\* option names and values of a [letter_values] section
ConfigOptions == { <<"a">>, <<"a","b">>, <<"1">> }

ConfigValues ==
    { <<"5">>, <<"0","5">>, <<"-","5">>, <<"+","7">>, <<"x">>, <<>> }

\* the sections: up to MaxConfigEntries options with distinct names
ConfigSections ==
    {sec \in SeqsUpTo(ConfigOptions \X ConfigValues, MaxConfigEntries) :
        \A i, j \in DOMAIN sec : i # j => sec[i][1] # sec[j][1]}

\* no usable config, or a config with a [letter_values] section
Configs == { <<>> } \cup { <<sec>> : sec \in ConfigSections }

\* the strings handed to parse_letter_input: the raw queries, the example of
\* its docstring family, and every short string over a few characters
ParseChars == {"a", "A", "b", "2", "0", " "}

ParseInputs ==
    QueryInputs
    \cup { <<"a","1","b","3","c","3","d","2","e","1","f","4">> }
    \cup SeqsUpTo(ParseChars, MaxParseLen)

TableInit ==
    /\ words = {}
    /\ pc = "idle"
    /\ call = NoCall
    /\ ret = NoRet
    /\ file = NoFile
    /\ session = NoSession

ParseLetterInput ==
    /\ pc = "idle"
    /\ \E letter_str \in ParseInputs :
          /\ call' = [NoCall EXCEPT !.op = "parse_letter_input", !.letters = letter_str]
          /\ ret' = [NoRet EXCEPT !.table = parse_letter_input(letter_str)]
    /\ pc' = "done"
    /\ UNCHANGED <<words, file, session>>

GetLetterValues ==
    /\ pc = "idle"
    /\ \E config \in Configs :
          /\ call' = [NoCall EXCEPT !.op = "get_letter_values", !.config = config]
          /\ ret' = [NoRet EXCEPT !.table = get_letter_values(config)]
    /\ pc' = "done"
    /\ UNCHANGED <<words, file, session>>

LoadLetterValues ==
    /\ pc = "idle"
    /\ \E config \in Configs :
          /\ call' = [NoCall EXCEPT !.op = "load_letter_values", !.config = config]
          /\ ret' = [NoRet EXCEPT !.table = load_letter_values(config)]
    /\ pc' = "done"
    /\ UNCHANGED <<words, file, session>>

TableNext ==
    \/ ParseLetterInput
    \/ GetLetterValues
    \/ LoadLetterValues
    \/ Return

TableSpec == TableInit /\ [][TableNext]_vars

(***************************************************************************)
(* Program runs: main loads the dictionary and either runs the interactive *)
(* loop or, in the standalone script, answers one query.  pc is the        *)
(* position of the run: "start" (main is entered), "prompt" (the loop is   *)
(* at input("Enter letters: ")), "solving" (the solver is about to be      *)
(* called on call.letters), "displaying" (the results are about to be      *)
(* printed), "selecting" (display_comprehensive_results is at              *)
(* input("> ")), "exited" (main has returned session.exit).                *)
(***************************************************************************)
\* the dictionary file before a run: missing, empty, or holding words
SessionFiles ==
    { <<>>, << <<>> >>, << << <<"e","a","s","t">>, <<"s","e","a","t">> >> >> }

\* the lines a download delivers
SessionBodies ==
    { <<>>, << <<"t","e","a">>, <<"1","2">>, <<" ","E","a","s","t"," ">> >>, << <<"s","e","a","t">>, <<"b","e","a","s","t">> >> }

\* what the world can do to the download of one load; the directory of a file
\* that exists can be created
SessionEnvs(variant, before) ==
    {env \in [has_path : BOOLEAN, before : {before},
              download : {"ok", "urlopen_fails", "read_fails", "mkdir_fails",
                          "open_fails", "write_fails"},
              body : SessionBodies, written : {0, 1}] :
        /\ env.written = 1 => env.download = "write_fails"
        /\ variant = "pkg" => env.has_path
        /\ (variant = "pkg" /\ env.download = "mkdir_fails") => before = <<>>}

\* args.letters of the standalone script
ArgLetters == { <<>>, <<"e","a","s","t">>, <<"z","z">> }

\* the lines typed at the "Enter letters" prompt
LoopInputs ==
    { <<>>, <<" ">>, <<"e","a","s","t">>, <<"z","z">>, <<"/","e","x","i","t">>, <<"Q">>,
      <<"e","x","i","t"," ">>, <<"q","u","i","t">> }

\* the lines typed at the word-selection prompt
Selections ==
    { <<>>, <<"1">>, <<"9">>, <<"4",".","1">>, <<"4",".","9">>, <<"x">> }

\* what detect_letters_from_screen returns
DetectedLetters == { <<>>, <<"e","a","s","t">> }

\* what can interrupt a step: nothing, an exception, Ctrl+C
Faults == {"none", "exception", "interrupt"}

SessionInit ==
    /\ words = {}
    /\ pc = "start"
    /\ call = NoCall
    /\ ret = NoRet
    /\ file \in SessionFiles
    /\ session = NoSession

\* main of either program, up to the first prompt of the loop or to the call
\* of the solver on args.letters
Main ==
    /\ pc = "start"
    /\ \E variant \in {"pkg", "sa"}, interactive \in BOOLEAN, window \in BOOLEAN,
          letters \in ArgLetters, custom_values \in ViewCustomChoices :
          \E env \in SessionEnvs(variant, file) :
             LET loaded == IF variant = "pkg" THEN load_dictionary(file, env)
                           ELSE sa_load_dictionary(file, env)
                 this == [NoSession EXCEPT
                            !.variant = variant,
                            !.interactive = (variant = "pkg" \/ interactive \/ letters = <<>>),
                            !.window = window,
                            !.custom_values = IF variant = "pkg" THEN <<>>
                                              ELSE IF custom_values = <<>> THEN << <<>> >>
                                              ELSE custom_values,
                            !.letters = letters,
                            !.env = env]
             IN /\ variant = "pkg" => (interactive /\ letters = <<>> /\ custom_values = <<>>)
                /\ variant = "sa" => ~window
                /\ file' = loaded.file
                /\ words' = loaded.words
                /\ IF loaded.raised
                   THEN /\ pc' = "exited"
                        /\ session' = [this EXCEPT !.printed = <<"error">>, !.exit = <<1>>]
                        /\ call' = NoCall
                   ELSE IF this.interactive
                   THEN /\ pc' = "prompt"
                        /\ session' = this
                        /\ call' = NoCall
                   ELSE /\ pc' = "solving"
                        /\ session' = this
                        /\ call' = [NoCall EXCEPT !.op = "find_best_words",
                                                  !.letters = letters,
                                                  !.custom = this.custom_values]
    /\ ret' = NoRet

\* the exit test of a loop that also leaves on an empty line
IsExitCommandOrEmpty(variant, user_input) ==
    \/ user_input = <<>>
    \/ IF variant = "pkg"
       THEN Lower(user_input) = <<"/","e","x","i","t">>
       ELSE Lower(user_input) \in { <<"e","x","i","t">>, <<"q","u","i","t">>, <<"q">> }

\* whether the stripped line is the exit command of the program
IsExitCommand(variant, user_input) ==
    IF variant = "pkg"
    THEN Lower(user_input) = <<"/","e","x","i","t">>
    ELSE Lower(user_input) \in { <<"e","x","i","t">>, <<"q","u","i","t">>, <<"q">> }

\* the call the loop makes on the letters of a query
LoopCall(letters) ==
    [NoCall EXCEPT
       !.op = IF session.variant = "pkg" THEN "find_all_words_with_scores"
              ELSE "find_best_words",
       !.letters = letters,
       !.custom = session.custom_values]

\* interactive_loop from input("Enter letters: ") to the call of the solver
InteractiveLoopInput ==
    /\ pc = "prompt"
    /\ session.queries < MaxQueries
    /\ \E event \in {"line", "interrupt", "eof"}, raw \in LoopInputs :
          LET user_input == Strip(raw)
              read == [session EXCEPT !.user_input = IF event = "line" THEN raw ELSE <<>>,
                                      !.event = event,
                                      !.printed = <<>>]
          IN CASE event = "interrupt" ->
                    /\ pc' = "exited"
                    /\ session' = [read EXCEPT !.printed = <<"goodbye">>, !.exit = <<0>>]
                    /\ UNCHANGED <<call, ret>>
               [] event = "eof" ->
                    /\ pc' = "prompt"
                    /\ session' = [read EXCEPT !.printed = <<"error">>]
                    /\ UNCHANGED <<call, ret>>
               [] event = "line" /\ IsExitCommand(session.variant, user_input) ->
                    /\ pc' = "exited"
                    /\ session' = [read EXCEPT !.printed = <<"goodbye">>, !.exit = <<0>>]
                    /\ UNCHANGED <<call, ret>>
               [] event = "line" /\ ~IsExitCommand(session.variant, user_input)
                                 /\ user_input = <<>> ->
                    IF session.window
                    THEN \E fault \in Faults, detected_letters \in DetectedLetters :
                            CASE fault = "exception" ->
                                    /\ pc' = "prompt"
                                    /\ session' = [read EXCEPT !.printed = <<"error">>,
                                                               !.event = fault]
                                    /\ UNCHANGED <<call, ret>>
                              [] fault = "interrupt" ->
                                    /\ pc' = "exited"
                                    /\ session' = [read EXCEPT !.printed = <<"goodbye">>,
                                                               !.event = fault,
                                                               !.exit = <<0>>]
                                    /\ UNCHANGED <<call, ret>>
                              [] fault = "none" /\ detected_letters = <<>> ->
                                    /\ pc' = "prompt"
                                    /\ session' = [read EXCEPT
                                                     !.printed = <<"no_letters_detected">>]
                                    /\ UNCHANGED <<call, ret>>
                              [] OTHER ->
                                    /\ pc' = "solving"
                                    /\ session' = [read EXCEPT !.printed = <<"detected">>]
                                    /\ call' = LoopCall(detected_letters)
                                    /\ ret' = NoRet
                    ELSE /\ pc' = "prompt"
                         /\ session' = read
                         /\ UNCHANGED <<call, ret>>
               [] OTHER ->
                    /\ pc' = "solving"
                    /\ session' = read
                    /\ call' = LoopCall(user_input)
                    /\ ret' = NoRet
    /\ UNCHANGED <<words, file>>

\* the call of the solver: find_all_words_with_scores in the package,
\* find_best_words in the standalone script
InteractiveLoopSolve ==
    /\ pc = "solving"
    /\ \E fault \in Faults :
          LET invoked == [session EXCEPT !.queries = @ + 1, !.event = fault]
          IN
             CASE fault = "exception" ->
                     /\ IF session.interactive
                        THEN /\ pc' = "prompt"
                             /\ session' = [invoked EXCEPT !.printed = Append(@, "error")]
                        ELSE /\ pc' = "exited"
                             /\ session' = [invoked EXCEPT !.printed = Append(@, "error"),
                                                           !.exit = <<1>>]
                     /\ UNCHANGED ret
               [] fault = "interrupt" ->
                     /\ session.interactive
                     /\ pc' = "exited"
                     /\ session' = [invoked EXCEPT !.printed = Append(@, "goodbye"),
                                                   !.exit = <<0>>]
                     /\ UNCHANGED ret
               [] OTHER ->
                     /\ pc' = "displaying"
                     /\ session' = invoked
                     /\ IF session.variant = "pkg"
                        THEN \E order \in Enumerations(
                                    pkg_valid_words(words, call.letters, call.custom)) :
                                ret' = [NoRet EXCEPT !.ranked =
                                          find_all_words_with_scores(
                                              words, call.letters, call.custom, order)]
                        ELSE \E order \in Enumerations(sa_valid_words(words, call.letters)) :
                                ret' = [NoRet EXCEPT !.result =
                                          find_best_words(
                                              words, call.letters, call.custom, order)]
    /\ UNCHANGED <<words, call, file>>

\* printing the results: display_comprehensive_results up to its prompt in
\* the package, the prints of interactive_loop and of main in the standalone
\* script
InteractiveLoopDisplay ==
    /\ pc = "displaying"
    /\ \E fault \in Faults :
          LET now == [session EXCEPT !.event = fault]
          IN
          CASE fault = "exception" ->
                  /\ IF session.interactive
                     THEN /\ pc' = "prompt"
                          /\ session' = [now EXCEPT !.printed = Append(@, "error")]
                     ELSE /\ pc' = "exited"
                          /\ session' = [now EXCEPT !.printed = Append(@, "error"),
                                                        !.exit = <<1>>]
                  /\ UNCHANGED ret
            [] fault = "interrupt" ->
                  /\ session.interactive
                  /\ pc' = "exited"
                  /\ session' = [now EXCEPT !.printed = Append(@, "goodbye"),
                                                !.exit = <<0>>]
                  /\ UNCHANGED ret
            [] fault = "none" /\ session.variant = "pkg" ->
                  IF ret.ranked = <<>>
                  THEN /\ pc' = "prompt"
                       /\ session' = [session EXCEPT
                                        !.printed = Append(@, "no_valid_words")]
                       /\ UNCHANGED ret
                  ELSE /\ pc' = "selecting"
                       /\ session' = [now EXCEPT !.printed = Append(@, "results")]
                       /\ ret' = [ret EXCEPT
                                    !.view = display_comprehensive_results(ret.ranked)]
            [] OTHER ->
                  /\ UNCHANGED ret
                  /\ IF ret.result.top_words = <<>>
                     THEN IF session.interactive
                          THEN /\ pc' = "prompt"
                               /\ session' = [session EXCEPT
                                                !.printed = Append(@, "no_valid_words")]
                          ELSE /\ pc' = "exited"
                               /\ session' = [session EXCEPT
                                                !.printed = Append(@, "no_valid_words"),
                                                !.exit = <<1>>]
                     ELSE IF session.interactive
                          THEN /\ pc' = "prompt"
                               /\ session' = [session EXCEPT
                                                !.printed = Append(@, "results")]
                          ELSE /\ pc' = "exited"
                               /\ session' = [session EXCEPT
                                                !.printed = Append(@, "results"),
                                                !.exit = <<0>>]
    /\ UNCHANGED <<words, call, file>>

\* display_comprehensive_results from input("> ") to its return
DisplaySelect ==
    /\ pc = "selecting"
    /\ pc' = "prompt"
    /\ \E event \in {"line", "interrupt", "eof"}, raw \in Selections :
          LET selection == Strip(raw)
              now == [session EXCEPT !.event = event]
              selected_word == parse_word_selection(selection, ret.view.top_5_scores,
                                                    words_by_length_of(ret.ranked))
          IN CASE event = "interrupt" ->
                    /\ session' = [now EXCEPT !.printed = Append(@, "skipping")]
                    /\ UNCHANGED ret
               [] event = "eof" ->
                    /\ session' = [now EXCEPT !.printed = Append(@, "error")]
                    /\ UNCHANGED ret
               [] event = "line" /\ selection = <<>> ->
                    /\ session' = now
                    /\ UNCHANGED ret
               [] event = "line" /\ selection # <<>> /\ selected_word = <<>> ->
                    /\ session' = [session EXCEPT
                                     !.printed = Append(@, "invalid_selection")]
                    /\ UNCHANGED ret
               [] OTHER ->
                    /\ session' = [session EXCEPT
                                     !.printed = Append(@, IF session.window THEN "typing"
                                                           ELSE "selected")]
                    /\ ret' = [ret EXCEPT !.selected = selected_word]
    /\ UNCHANGED <<words, call, file>>

SessionNext ==
    \/ Main
    \/ InteractiveLoopInput
    \/ InteractiveLoopSolve
    \/ InteractiveLoopDisplay
    \/ DisplaySelect

SessionSpec == SessionInit /\ [][SessionNext]_vars

(***************************************************************************)
(* The dictionary loaders called on their own, one call after the other on *)
(* the file the calls before left behind.                                  *)
(***************************************************************************)
DictInit ==
    /\ words = {}
    /\ pc = "idle"
    /\ call = NoCall
    /\ ret = NoRet
    /\ file \in SessionFiles
    /\ session = NoSession

EnsureDictionaryExists ==
    /\ pc = "idle"
    /\ \E env \in SessionEnvs("pkg", file) :
          LET ensured == ensure_dictionary_exists(file, env)
          IN /\ call' = [NoCall EXCEPT !.op = "ensure_dictionary_exists", !.env = env]
             /\ ret' = [NoRet EXCEPT !.raised = ensured.raised]
             /\ file' = ensured.file
    /\ pc' = "done"
    /\ UNCHANGED <<words, session>>

\* Dictionary(dict_path) of the package
LoadDictionary ==
    /\ pc = "idle"
    /\ \E env \in SessionEnvs("pkg", file) :
          LET loaded == load_dictionary(file, env)
          IN /\ call' = [NoCall EXCEPT !.op = "load_dictionary", !.env = env]
             /\ ret' = [NoRet EXCEPT !.raised = loaded.raised, !.matched = loaded.words]
             /\ file' = loaded.file
             /\ words' = loaded.words
    /\ pc' = "done"
    /\ UNCHANGED session

\* Dictionary(dict_path) of the standalone script
SaLoadDictionary ==
    /\ pc = "idle"
    /\ \E env \in SessionEnvs("sa", file) :
          LET loaded == sa_load_dictionary(file, env)
          IN /\ call' = [NoCall EXCEPT !.op = "sa_load_dictionary", !.env = env]
             /\ ret' = [NoRet EXCEPT !.raised = loaded.raised, !.matched = loaded.words]
             /\ file' = loaded.file
             /\ words' = loaded.words
    /\ pc' = "done"
    /\ UNCHANGED session

DictNext ==
    \/ EnsureDictionaryExists
    \/ LoadDictionary
    \/ SaLoadDictionary
    \/ Return

DictSpec == DictInit /\ [][DictNext]_vars

(***************************************************************************)
(* Vocabulary of the claims.                                               *)
(***************************************************************************)
Done(op) == pc = "done" /\ call.op = op

\* how often letter c occurs in string s
LetterCount(s, c) == Cardinality({i \in DOMAIN s : s[i] = c})

\* word W uses no letter more often than string L supplies it
Formable(W, L) == \A c \in Range(W) : LetterCount(W, c) <= LetterCount(L, c)

\* the alphabetic characters of a raw string, lower-cased, with repetition
RawLetters(raw) == Lower(SelectSeq(raw, IsAlpha))

HasMarker(raw) == \E i \in DOMAIN raw : raw[i] = "="

\* the per-position increments of the length bonus
PositionIncrement(p) ==
    CASE p <= 4 -> 0
      [] p \in 5..7 -> 5
      [] p \in 8..9 -> 10
      [] p \in 10..11 -> 15
      [] p \in 12..14 -> 20
      [] p \in 15..17 -> 25
      [] p = 18 -> 30
      [] p = 19 -> 40
      [] OTHER -> 50

RECURSIVE CumulativeBonus(_)
CumulativeBonus(n) ==
    IF n <= 0 THEN 0 ELSE CumulativeBonus(n - 1) + PositionIncrement(n)

\* the cumulative bonuses for the lengths 0..20
StatedBonuses ==
    << 0, 0, 0, 0, 0, 5, 10, 15, 25, 35, 50, 65, 85, 105, 125,
       150, 175, 200, 230, 270, 320 >>

\* the sum of the table values of a word's letters from position i on
RECURSIVE SumOfValuesFrom(_, _, _)
SumOfValuesFrom(word, table, i) ==
    IF i > Len(word) THEN 0
    ELSE DictGet(table, word[i], 0) + SumOfValuesFrom(word, table, i + 1)

SumOfValues(word, table) == SumOfValuesFrom(word, table, 1)

\* the score the specification gives a lexicon word under a table
StatedScore(word, table) ==
    SumOfValues(word, table)
    + (IF Len(word) > 20 THEN 320 ELSE CumulativeBonus(Len(word)))

\* the words of the result of a solver entry point
ResultWords ==
    CASE call.op = "find_best_word" -> IF ret.best[1] = <<>> THEN {} ELSE {ret.best[1]}
      [] call.op = "find_all_words_with_scores" ->
            {ret.ranked[i][1] : i \in DOMAIN ret.ranked}
      [] call.op = "find_best_words" ->
            {ret.result.top_words[i][1] : i \in DOMAIN ret.result.top_words}

\* the <<word, score>> pairs of the result of a solver entry point
ResultScores ==
    CASE call.op = "find_best_word" -> IF ret.best[1] = <<>> THEN {} ELSE {ret.best}
      [] call.op = "find_all_words_with_scores" ->
            {<<ret.ranked[i][1], ret.ranked[i][2]>> : i \in DOMAIN ret.ranked}
      [] call.op = "find_best_words" -> Range(ret.result.top_words)

\* the ranked sequence of <<word, score>> pairs of a ranking entry point
Ranked ==
    IF call.op = "find_all_words_with_scores"
    THEN [i \in DOMAIN ret.ranked |-> <<ret.ranked[i][1], ret.ranked[i][2]>>]
    ELSE ret.result.top_words

\* the table a solver entry point scores with
ScoringTable ==
    IF call.op = "find_best_words"
    THEN sa_letter_values(call.letters, call.custom)
    ELSE merge_letter_values(call.letters, call.custom)

SolverOps == {"find_best_word", "find_all_words_with_scores", "find_best_words"}

DoneSolver == pc = "done" /\ call.op \in SolverOps

(***************************************************************************)
(* C1.  get_words_with_letters(L) returns exactly the lexicon words W that *)
(* use no letter more often than L holds it and have len(W) >= 4, in the   *)
(* package Dictionary and in the standalone Dictionary.                    *)
(***************************************************************************)
C1_MatcherReturnsFormableWordsOfFourOrMore ==
    (pc = "done" /\ call.op \in {"pkg_get_words_with_letters",
                                 "sa_get_words_with_letters"})
    => ret.matched = {W \in words : Formable(W, call.letters) /\ Len(W) >= 4}

(***************************************************************************)
(* C2.  The solver entry points count every alphabetic character of the    *)
(* raw input with repetition: a lexicon word of four or more letters that  *)
(* uses each letter at most as often as the input supplies it is matched   *)
(* (it is in the ranked result; find_best_word then returns some word).    *)
(***************************************************************************)
C2_RepeatedLettersAreAvailable ==
    (DoneSolver /\ ~HasMarker(call.letters))
    => \A W \in words :
          (Len(W) >= 4 /\ Formable(W, RawLetters(call.letters)))
          => IF call.op = "find_best_word" THEN ret.best[1] # <<>>
             ELSE W \in ResultWords

(***************************************************************************)
(* C3.  Every word a solver entry point returns contains only letters that *)
(* occur in the raw letter string, whatever custom_values holds.           *)
(***************************************************************************)
C3_ResultUsesOnlyInputLetters ==
    DoneSolver
    => \A W \in ResultWords : Range(W) \subseteq Range(Lower(call.letters))

(***************************************************************************)
(* C4.  The score attached to a word in a query result is the sum of the   *)
(* table values of its letters plus the length bonus for its length.       *)
(***************************************************************************)
C4_ScoreIsBasePlusLengthBonus ==
    DoneSolver
    => \A e \in ResultScores : e[2] = StatedScore(e[1], ScoringTable)

(***************************************************************************)
(* C5.  calculate_length_bonus(n) is, for n in 0..20, the cumulative sum   *)
(* of the per-position increments, i.e. 0,0,0,0,0,5,10,15,25,35,50,65,85,  *)
(* 105,125,150,175,200,230,270,320, and is 320 for every n > 20.           *)
(***************************************************************************)
C5_LengthBonusIsCumulativeAndCapped ==
    Done("calculate_length_bonus")
    => /\ call.n <= 20 => /\ ret.value = CumulativeBonus(call.n)
                          /\ ret.value = StatedBonuses[call.n + 1]
       /\ call.n > 20 => ret.value = 320

\* a length above 20 was asked for and got the length-20 bonus
C5_Witness ==
    /\ Done("calculate_length_bonus")
    /\ call.n > 20
    /\ ret.value = 320

\* the words a scored word is compared with
CompareLens == {0, 4, 7, 19, 20}

CompareWords ==
    {p \o Rep(c, k) : p \in {<<>>, <<"a">>, <<"z">>}, c \in {"-", "a"},
                      k \in CompareLens}

\* what one character adds to the base score under a table: the value of its
\* lower-case form if it is a letter the table holds, otherwise nothing
StatedContribution(c, table) ==
    CASE c \in Range(LowerAlphabet) -> DictGet(table, c, 0)
      [] c \in Range(UpperAlphabet) ->
            DictGet(table, LowerAlphabet[IndexOf(UpperAlphabet, c)], 0)
      [] OTHER -> 0

RECURSIVE StatedBaseFrom(_, _, _)
StatedBaseFrom(word, table, i) ==
    IF i > Len(word) THEN 0
    ELSE StatedContribution(word[i], table) + StatedBaseFrom(word, table, i + 1)

StatedBase(word, table) == StatedBaseFrom(word, table, 1)

\* the table calculate_word_score was called with (the standard one for None)
CalledTable == IF call.custom = <<>> THEN STANDARD_LETTER_VALUES ELSE call.custom[1]

(***************************************************************************)
(* C6.  The length bonus never decreases as the length grows, and of two   *)
(* words with the same base score under the same table the one that is at  *)
(* least as long scores at least as much.                                  *)
(***************************************************************************)
C6_ScoreMonotonicInLength ==
    /\ Done("calculate_length_bonus")
       => \A m \in 0..call.n : calculate_length_bonus(m) <= ret.value
    /\ Done("calculate_word_score")
       => \A w2 \in CompareWords :
             (/\ StatedBase(w2, CalledTable) = StatedBase(call.word, CalledTable)
              /\ Len(call.word) >= Len(w2))
             => calculate_word_score(w2, call.custom) <= ret.value

\* a word was scored strictly above a strictly shorter word of the same base
C6_Witness ==
    /\ Done("calculate_word_score")
    /\ \E w2 \in CompareWords :
          /\ StatedBase(w2, CalledTable) = StatedBase(call.word, CalledTable)
          /\ StatedBase(w2, CalledTable) > 0
          /\ Len(w2) < Len(call.word)
          /\ calculate_word_score(w2, call.custom) < ret.value

\* the word with the case of the letter at position i swapped
SwapCase(word, i) ==
    [word EXCEPT ![i] =
        CASE word[i] \in Range(LowerAlphabet) ->
                UpperAlphabet[IndexOf(LowerAlphabet, word[i])]
          [] word[i] \in Range(UpperAlphabet) ->
                LowerAlphabet[IndexOf(UpperAlphabet, word[i])]
          [] OTHER -> word[i]]

(***************************************************************************)
(* C7.  calculate_word_score always returns a number: the length bonus     *)
(* plus, per character, the table value of the letter's lower-case form,   *)
(* with 0 for a letter the table lacks and 0 for a non-alphabetic          *)
(* character; swapping the case of a letter leaves the score unchanged,    *)
(* and the empty word scores 0 under every table.                          *)
(***************************************************************************)
C7_ScoreTotalAndCaseInsensitive ==
    Done("calculate_word_score")
    => /\ ret.value \in Nat
       /\ ret.value = StatedBase(call.word, CalledTable)
                      + (IF Len(call.word) > 20 THEN 320
                         ELSE CumulativeBonus(Len(call.word)))
       /\ \A i \in DOMAIN call.word :
             calculate_word_score(SwapCase(call.word, i), call.custom) = ret.value
       /\ call.word = <<>> => ret.value = 0

\* an upper-case letter with a value was scored next to a character that
\* adds nothing: a non-alphabetic one or a letter the table lacks
C7_Witness ==
    /\ Done("calculate_word_score")
    /\ \E i, j \in DOMAIN call.word :
          /\ call.word[i] \in Range(UpperAlphabet)
          /\ StatedContribution(call.word[i], CalledTable) > 0
          /\ \/ ~IsAlpha(call.word[j])
             \/ ~DictHas(CalledTable, LowerChar(call.word[j]))
    /\ ret.value > 0

\* the lexicon words the raw letters of the call can form
FormableWords == {W \in words : Formable(W, RawLetters(call.letters))}

(***************************************************************************)
(* C8.  When some lexicon word is formable from the letters,               *)
(* find_best_word returns a formable word with that word's score, no       *)
(* formable word scores strictly higher, and no formable word of the same  *)
(* score is strictly longer.                                               *)
(***************************************************************************)
C8_BestWordIsHighestScoringFormable ==
    (Done("find_best_word") /\ FormableWords # {})
    => /\ ret.best[1] \in FormableWords
       /\ ret.best[2] = StatedScore(ret.best[1], ScoringTable)
       /\ \A W \in FormableWords :
             /\ StatedScore(W, ScoringTable) <= ret.best[2]
             /\ StatedScore(W, ScoringTable) = ret.best[2]
                => Len(W) <= Len(ret.best[1])

RankingOps == {"find_all_words_with_scores", "find_best_words"}

\* entry a stands strictly before entry b in (score desc, length desc, word asc)
RankedBefore(a, b) ==
    \/ a[2] > b[2]
    \/ a[2] = b[2] /\ Len(a[1]) > Len(b[1])
    \/ a[2] = b[2] /\ Len(a[1]) = Len(b[1]) /\ StrLess(a[1], b[1])

(***************************************************************************)
(* C9.  The ranked sequence of find_all_words_with_scores and of           *)
(* find_best_words is ordered by score descending, then length descending, *)
(* then word ascending: every entry stands strictly before its successor.  *)
(***************************************************************************)
C9_RankedByScoreLengthWord ==
    (pc = "done" /\ call.op \in RankingOps)
    => \A i \in 1..(Len(Ranked) - 1) : RankedBefore(Ranked[i], Ranked[i + 1])

(***************************************************************************)
(* C10.  The output of find_all_words_with_scores and of find_best_words   *)
(* is the same for every order in which the matched set is enumerated.     *)
(***************************************************************************)
C10_RankingIndependentOfEnumeration ==
    /\ Done("find_all_words_with_scores")
       => \A order \in Enumerations(pkg_valid_words(words, call.letters, call.custom)) :
             find_all_words_with_scores(words, call.letters, call.custom, order)
                = ret.ranked
    /\ Done("find_best_words")
       => \A order \in Enumerations(sa_valid_words(words, call.letters)) :
             find_best_words(words, call.letters, call.custom, order) = ret.result

(***************************************************************************)
(* C11.  find_best_word is deterministic: among the matched words tied on  *)
(* score and length it returns the alphabetically smallest one, whatever   *)
(* the order in which the matched set is iterated.                         *)
(***************************************************************************)
C11_BestWordTieBreakIsAlphabetic ==
    Done("find_best_word")
    => LET valid_words == pkg_valid_words(words, call.letters, call.custom)
       IN /\ \A W \in valid_words :
                (/\ calculate_word_score(W, <<ScoringTable>>) = ret.best[2]
                 /\ Len(W) = Len(ret.best[1]))
                => ~StrLess(W, ret.best[1])
          /\ \A order \in Enumerations(valid_words) :
                find_best_word(words, call.letters, call.custom, order) = ret.best

ViewOps == {"find_best_words", "display_comprehensive_results"}

DoneView == pc = "done" /\ call.op \in ViewOps

\* the <<word, score>> pairs of a sequence of (word, score, length) entries
PairsOf(entries) == [i \in DOMAIN entries |-> <<entries[i][1], entries[i][2]>>]

\* the matched words of the call with the scores the variant gives them
ViewCandidates ==
    IF call.op = "find_best_words"
    THEN {<<W, sa_calculate_word_score(W, sa_letter_values(call.letters, call.custom))>> :
            W \in {V \in sa_valid_words(words, call.letters) :
                     satisfies_constraints(V, position_constraints_of(call.letters))}}
    ELSE {<<W, calculate_word_score(W, <<merge_letter_values(call.letters, call.custom)>>)>> :
            W \in pkg_valid_words(words, call.letters, call.custom)}

\* the top-overall view of the call
TopView ==
    IF call.op = "find_best_words" THEN ret.result.top_words
    ELSE PairsOf(ret.view.top_5_scores)

\* the top-by-length view of the call: <<length, <<word, score>> pairs>> groups
GroupView ==
    IF call.op = "find_best_words" THEN ret.result.by_length
    ELSE [k \in DOMAIN ret.view.by_length |->
             <<ret.view.by_length[k][1], PairsOf(ret.view.by_length[k][2])>>]

\* top is the first min(5, n) entries of the n candidates sorted by
\* (score desc, length desc, word asc)
IsTopOfFullSort(top, candidates) ==
    /\ Len(top) = (IF Cardinality(candidates) < 5 THEN Cardinality(candidates) ELSE 5)
    /\ \A i \in DOMAIN top : top[i] \in candidates
    /\ \A i \in 1..(Len(top) - 1) : RankedBefore(top[i], top[i + 1])
    /\ \A c \in candidates \ Range(top) :
          top # <<>> /\ RankedBefore(top[Len(top)], c)

(***************************************************************************)
(* C12.  The top-overall view (top_words of find_best_words, top_5_scores  *)
(* of display_comprehensive_results) is the first min(5, n) entries of the *)
(* n matched words sorted by (score desc, length desc, word asc).          *)
(***************************************************************************)
C12_TopViewIsPrefixOfFullSort ==
    DoneView => IsTopOfFullSort(TopView, ViewCandidates)

(***************************************************************************)
(* C13.  The top-by-length view has a group for length L iff L >= 4 and    *)
(* some matched word has length L; the groups come in ascending length     *)
(* order, and each group is the first min(5, n) of the n matched words of  *)
(* its length sorted by (score desc, length desc, word asc).               *)
(***************************************************************************)
C13_GroupsAreBestFivePerLength ==
    DoneView
    => /\ {GroupView[k][1] : k \in DOMAIN GroupView}
             = {Len(c[1]) : c \in {d \in ViewCandidates : Len(d[1]) >= 4}}
       /\ \A k \in 1..(Len(GroupView) - 1) : GroupView[k][1] < GroupView[k + 1][1]
       /\ \A k \in DOMAIN GroupView :
             IsTopOfFullSort(GroupView[k][2],
                             {c \in ViewCandidates : Len(c[1]) = GroupView[k][1]})

\* the empty result of the solver entry point that was called
EmptyResult ==
    CASE call.op = "find_best_word" -> ret.best = << <<>>, 0 >>
      [] call.op = "find_all_words_with_scores" -> ret.ranked = <<>>
      [] call.op = "find_best_words" ->
            ret.result = [top_words |-> <<>>, by_length |-> <<>>]

(***************************************************************************)
(* C14.  For an empty bag (a raw input without any alphabetic character)   *)
(* every solver entry point returns its empty result, for every lexicon    *)
(* and with or without custom_values.                                      *)
(***************************************************************************)
C14_EmptyBagGivesEmptyResult ==
    (DoneSolver /\ RawLetters(call.letters) = <<>>) => EmptyResult

\* the bag of the call: the letters of the raw input, for find_best_words
\* those before the constraint marker
BagOf(raw) ==
    IF call.op = "find_best_words" THEN RawLetters(free_letters_of(raw))
    ELSE RawLetters(raw)

\* the candidate words of the call: formable from the bag, of four or more
\* letters, and for find_best_words passing every position constraint
CandidateWords ==
    {W \in words :
        /\ Formable(W, BagOf(call.letters))
        /\ Len(W) >= 4
        /\ call.op = "find_best_words"
           => \A pc_pair \in Range(position_constraints_of(call.letters)) :
                 Len(W) >= pc_pair[1] /\ W[pc_pair[1]] = pc_pair[2]}

(***************************************************************************)
(* C15.  When no lexicon word is formable from the bag, or the position    *)
(* constraints exclude every formable word, the solver entry point returns *)
(* its empty result.                                                       *)
(***************************************************************************)
C15_NoCandidateGivesEmptyResult ==
    (DoneSolver /\ CandidateWords = {}) => EmptyResult

\* the (position, letter) pairs find_best_words parsed from its argument
ParsedPairs == Range(position_constraints_of(call.letters))

\* word W has the letter of the pair at the position of the pair
MeetsPair(W, pair) == Len(W) >= pair[1] /\ W[pair[1]] = pair[2]

(***************************************************************************)
(* C16.  Under a non-empty set of parsed position constraints,             *)
(* find_best_words retains a matched word iff for every parsed (pos, ch)   *)
(* pair the word has length >= pos and holds ch at position pos.           *)
(***************************************************************************)
C16_RetainedIffEveryPairMet ==
    (Done("find_best_words") /\ ParsedPairs # {})
    => \A W \in sa_valid_words(words, call.letters) :
          W \in ResultWords <=> \A pair \in ParsedPairs : MeetsPair(W, pair)

\* under a non-empty constraint set one matched word was retained and
\* another one rejected
C16_Witness ==
    /\ Done("find_best_words")
    /\ ParsedPairs # {}
    /\ \E W, V \in sa_valid_words(words, call.letters) :
          /\ W \in ResultWords
          /\ V \notin ResultWords
          /\ \E pair \in ParsedPairs : ~MeetsPair(V, pair)

\* (letter, position) pairs appended to a constraint specification; the last
\* two produce no constraint
ExtraPairs ==
    { <<"e","1">>, <<"s","1">>, <<"a","2">>, <<"t","4">>, <<"t","0">>, <<"e">> }

\* the words find_best_words retains for a raw input
RetainedFor(raw) ==
    LET order == CHOOSE o \in Enumerations(sa_valid_words(words, raw)) : TRUE
        top_words == find_best_words(words, raw, call.custom, order).top_words
    IN {top_words[i][1] : i \in DOMAIN top_words}

\* the pair does not name a position the call's constraints give another letter
KeepsParsedPairs(extra) ==
    \A q \in Range(position_constraints_of(<<"s", "=">> \o extra)) :
        \A p \in ParsedPairs : q[1] = p[1] => q[2] = p[2]

(***************************************************************************)
(* C17 as stated.  Appending any further (letter, position) pair to the    *)
(* constraint specification yields a matched set that is a subset of the   *)
(* matched set without it.                                                 *)
(***************************************************************************)
C17_AnyAppendedPairShrinks ==
    (Done("find_best_words") /\ HasMarker(call.letters))
    => \A extra \in ExtraPairs : RetainedFor(call.letters \o extra) \subseteq ResultWords

(***************************************************************************)
(* C17 amended.  Appending a further (letter, position) pair that names no *)
(* position the specification already gives another letter yields a       *)
(* matched set that is a subset of the matched set without it.             *)
(***************************************************************************)
C17_AppendedPairOnFreePositionShrinks ==
    (Done("find_best_words") /\ HasMarker(call.letters))
    => \A extra \in ExtraPairs :
          KeepsParsedPairs(extra)
          => RetainedFor(call.letters \o extra) \subseteq ResultWords

\* a pair on a position not yet constrained was appended to a non-empty
\* specification and removed a word from the matched set
C17_Witness ==
    /\ Done("find_best_words")
    /\ HasMarker(call.letters)
    /\ ParsedPairs # {}
    /\ \E extra \in ExtraPairs :
          /\ KeepsParsedPairs(extra)
          /\ RetainedFor(call.letters \o extra) # ResultWords
          /\ RetainedFor(call.letters \o extra) \subseteq ResultWords

\* the inline values of the call: what parse_letter_input reads from the
\* letters of the query
InlineValues ==
    parse_letter_input(IF call.op = "find_best_words"
                       THEN free_letters_of(call.letters) ELSE call.letters)

\* the value of letter c when custom_values go before the inline values
CustomFirstValue(c) == DictGet(call.custom[1], c, DictGet(InlineValues, c, 0))

RECURSIVE CustomFirstBaseFrom(_, _)
CustomFirstBaseFrom(word, i) ==
    IF i > Len(word) THEN 0
    ELSE CustomFirstValue(word[i]) + CustomFirstBaseFrom(word, i + 1)

\* the score the called variant gives a word when custom_values go first:
\* the package adds the length bonus, the standalone variant does not
CustomFirstScore(word) ==
    CustomFirstBaseFrom(word, 1)
    + (IF call.op = "find_best_words" THEN 0 ELSE calculate_length_bonus(Len(word)))

\* the query writes digits behind letter c
HasInlineDigits(c) ==
    \E i \in 1..(Len(call.letters) - 1) :
        LowerChar(call.letters[i]) = c /\ IsDigit(call.letters[i + 1])

\* the letters the query gives an inline value and custom_values another one
ConflictLetters ==
    {c \in Range(DictKeys(InlineValues)) :
        /\ HasInlineDigits(c)
        /\ DictHas(call.custom[1], c)
        /\ DictGet(call.custom[1], c, 0) # DictGet(InlineValues, c, 0)}

(***************************************************************************)
(* C18.  In both variants a letter with an inline value in the query and a *)
(* value in custom_values is scored with the custom value: every score of  *)
(* a result of find_best_word, find_all_words_with_scores and              *)
(* find_best_words is the one computed with custom_values going first.     *)
(***************************************************************************)
C18_CustomValueWinsOverInline ==
    (DoneSolver /\ Truthy(call.custom))
    => \A e \in ResultScores : e[2] = CustomFirstScore(e[1])

\* a result word holds a letter whose inline value differs from its custom
\* value
C18_Witness ==
    /\ DoneSolver
    /\ Truthy(call.custom)
    /\ \E e \in ResultScores : Range(e[1]) \cap ConflictLetters # {}

\* the value the package variant scores letter c with for the call's inputs
PkgValue(c) == DictGet(merge_letter_values(call.letters, call.custom), c, 0)

\* the value the standalone variant scores letter c with for the call's inputs
SaValue(c) == DictGet(sa_letter_values(call.letters, call.custom), c, 0)

\* a query of plain letters and inline values was solved with custom_values
DoneWithCustom == DoneSolver /\ Truthy(call.custom) /\ ~HasMarker(call.letters)

(***************************************************************************)
(* C19 as stated.  The two variants disagree on merge precedence: a letter *)
(* given both inline and in custom_values is scored with the inline value  *)
(* by one variant and with the custom value by the other.                  *)
(***************************************************************************)
C19_VariantsDisagreeOnPrecedence ==
    DoneWithCustom
    => \A c \in ConflictLetters :
          {PkgValue(c), SaValue(c)}
             = {DictGet(InlineValues, c, 0), DictGet(call.custom[1], c, 0)}

(***************************************************************************)
(* C19 amended.  The two variants agree on merge precedence: a letter      *)
(* given both inline and in custom_values is scored with the custom value  *)
(* by the package variant and by the standalone variant.                   *)
(***************************************************************************)
C19_VariantsAgreeOnPrecedence ==
    DoneWithCustom
    => \A c \in ConflictLetters :
          /\ PkgValue(c) = SaValue(c)
          /\ SaValue(c) = DictGet(call.custom[1], c, 0)

\* the standalone variant returned a word with a letter whose inline value
\* differs from its custom value, and both variants give it the custom value
C19_Witness ==
    /\ DoneWithCustom
    /\ call.op = "find_best_words"
    /\ \E e \in ResultScores : \E c \in Range(e[1]) \cap ConflictLetters :
          /\ PkgValue(c) = SaValue(c)
          /\ PkgValue(c) # DictGet(InlineValues, c, 0)

\* every key is one lower-case letter and every value a non-negative integer
WellFormedTable(table) ==
    \A i \in DOMAIN table :
        /\ table[i][1] \in Range(LowerAlphabet)
        /\ table[i][2] \in Nat

TableOps == {"parse_letter_input", "get_letter_values", "load_letter_values"}

(***************************************************************************)
(* C20.  Every letter-value mapping used to score a query has single       *)
(* lower-case letters as keys and non-negative integers as values: the     *)
(* output of parse_letter_input, the tables of get_letter_values and of    *)
(* load_letter_values, and the table merged from a query's inline values   *)
(* and such a config table.                                                *)
(***************************************************************************)
C20_TablesMapLettersToNaturals ==
    (pc = "done" /\ call.op \in TableOps)
    => /\ WellFormedTable(ret.table)
       /\ call.op # "parse_letter_input"
          => \A letters \in QueryInputs :
                WellFormedTable(merge_letter_values(letters, <<ret.table>>))

\* what the run printed since the last "Enter letters" prompt
Printed(message) == message \in Range(session.printed)

(***************************************************************************)
(* C21.  A run whose dictionary was loaded and whose query matches no word *)
(* reports "no valid words" as a normal outcome: once that report is       *)
(* printed the run has printed no error for the query and has not ended    *)
(* with an error exit status, in the interactive loops and in the single   *)
(* run of the standalone main alike.                                       *)
(***************************************************************************)
C21_NoValidWordsIsNotAFailure ==
    (words # {} /\ Printed("no_valid_words"))
    => /\ ~Printed("error")
       /\ session.exit # <<1>>

\* the download of the run failed: in the package any step of the update, in
\* the standalone script the request or the reading of the response
DownloadFails ==
    IF session.variant = "pkg" THEN session.env.download # "ok"
    ELSE session.env.download \in {"urlopen_fails", "read_fails"}

\* no dictionary file exists once the download has failed (package), or no
\* word could be read from a file given with --dict (standalone)
NoFileOrWords ==
    IF session.variant = "pkg" THEN file = <<>>
    ELSE \/ ~session.env.has_path
         \/ session.env.before = <<>>
         \/ \A i \in DOMAIN session.env.before[1] :
               ~IsAlphaString(Strip(session.env.before[1][i]))

\* the dictionary file the load leaves behind has size zero and the load got
\* no word from anywhere else
ResultingFileEmpty == session.env.has_path /\ file = << <<>> >> /\ words = {}

LexiconUnobtainable ==
    /\ session.variant # "none"
    /\ \/ DownloadFails /\ NoFileOrWords
       \/ ResultingFileEmpty

(***************************************************************************)
(* C22.  When the lexicon cannot be obtained (the download fails and no    *)
(* dictionary file or words exist, or the resulting file is empty), the    *)
(* construction of the solver raises: main prints an error, returns exit   *)
(* status 1, and the run processes no query.                               *)
(***************************************************************************)
C22_UnobtainableLexiconAbortsTheRun ==
    LexiconUnobtainable
    => /\ pc = "exited"
       /\ session.exit = <<1>>
       /\ session.printed = <<"error">>
       /\ session.queries = 0

\* the value of a decimal digit and of a run of decimal digits
DigitValue(c) == CHOOSE d \in 0..9 : DigitChars[d + 1] = c

RECURSIVE Pow10(_)
Pow10(k) == IF k = 0 THEN 1 ELSE 10 * Pow10(k - 1)

RECURSIVE DecimalValue(_)
DecimalValue(run) ==
    IF run = <<>> THEN 0
    ELSE DigitValue(Head(run)) * Pow10(Len(run) - 1) + DecimalValue(Tail(run))

\* the positions of the alphabetic characters of a string, and those of a letter
LetterPositions(str) == {i \in DOMAIN str : IsAlpha(str[i])}

OccurrencesOf(str, c) == {i \in LetterPositions(str) : LowerChar(str[i]) = c}

\* the last position of the maximal run of digits right after position i
\* (i itself when no digit follows)
RunEnd(str, i) ==
    CHOOSE j \in i..Len(str) :
        /\ \A k \in (i + 1)..j : IsDigit(str[k])
        /\ j < Len(str) => ~IsDigit(str[j + 1])

\* the value the occurrence of a letter at position i states
StatedValueAt(str, i) ==
    IF RunEnd(str, i) = i
    THEN DictGet(STANDARD_LETTER_VALUES, LowerChar(str[i]), 1)
    ELSE DecimalValue(SubSeq(str, i + 1, RunEnd(str, i)))

C24_LastOccurrenceWins ==
    Done("parse_letter_input")
    => LET str == call.letters
       IN \A e \in Range(ret.table) :
             LET occurrences == OccurrencesOf(str, e[1])
                 last == CHOOSE i \in occurrences : \A k \in occurrences : k <= i
             IN e[2] = StatedValueAt(str, last)

\* an inline value followed by the same letter in the other case without digits
C24_Witness ==
    /\ Done("parse_letter_input")
    /\ call.letters = <<"a","2","0","A">>
    /\ ret.table = << <<"a",1>> >>

\* the constraint specification of a raw query: what follows the marker
ConstraintString(raw) == IF HasMarker(raw) THEN Strip(SplitPart1(raw)) ELSE <<>>

\* the positions in a constraint specification of the letters that state a
\* pair: a digit run follows and its value is not zero
PairIndices(cs) ==
    {i \in LetterPositions(cs) :
        RunEnd(cs, i) > i /\ DecimalValue(SubSeq(cs, i + 1, RunEnd(cs, i))) > 0}

\* the letters of a constraint specification that state no pair
DroppedIndices(cs) == LetterPositions(cs) \ PairIndices(cs)

\* the <<position, letter>> pair stated at index i
PairAt(cs, i) == <<DecimalValue(SubSeq(cs, i + 1, RunEnd(cs, i))), LowerChar(cs[i])>>

\* for each position named, the pair stated last
LastPairs(cs) ==
    {PairAt(cs, i) : i \in {k \in PairIndices(cs) :
                              \A j \in PairIndices(cs) :
                                 j > k => PairAt(cs, j)[1] # PairAt(cs, k)[1]}}

RepeatsPosition(cs) ==
    \E i, j \in PairIndices(cs) : i # j /\ PairAt(cs, i)[1] = PairAt(cs, j)[1]

\* the words find_best_words matches when no constraint applies
UnconstrainedMatches ==
    {W \in words : Formable(W, RawLetters(free_letters_of(call.letters))) /\ Len(W) >= 4}

(***************************************************************************)
(* C25.  When the constraint specification names a position more than      *)
(* once, find_best_words enforces for that position only the pair parsed   *)
(* last: the matched set is the unconstrained matched set cut down to the  *)
(* words that meet the last pair of every position.                        *)
(***************************************************************************)
C25_LastPairOfAPositionIsEnforced ==
    (Done("find_best_words") /\ RepeatsPosition(ConstraintString(call.letters)))
    => ResultWords =
          {W \in UnconstrainedMatches :
              \A pair \in LastPairs(ConstraintString(call.letters)) : MeetsPair(W, pair)}

\* position 1 is given e and then s: seat is matched and east, which meets
\* the earlier pair, is not
C25_Witness ==
    /\ Done("find_best_words")
    /\ call.letters = <<"e","a","s","t"," ","s","=","e","1","s","1">>
    /\ <<"e","a","s","t">> \in words
    /\ ResultWords = { <<"s","e","a","t">> }

C26_WitnessNoneSurvives ==
    /\ Done("find_best_words")
    /\ call.letters = <<"e","a","s","t"," ","s","=","e","0","t">>
    /\ ResultWords = { <<"e","a","s","t">>, <<"s","e","a","t">> }

\* a dictionary file that exists and is not empty
NonEmptyFile(f) == f # <<>> /\ f[1] # <<>>

(***************************************************************************)
(* C27.  When a non-empty dictionary file exists before a call of          *)
(* ensure_dictionary_exists and the update fails at any step (opening the  *)
(* URL, reading the response, writing the file), the call returns the path *)
(* and the file still holds its previous content; the call raises only     *)
(* when no non-empty file existed before it.                               *)
(***************************************************************************)
C27_FailedUpdateKeepsTheFile ==
    Done("ensure_dictionary_exists")
    => /\ (NonEmptyFile(call.env.before) /\ call.env.download # "ok")
          => (~ret.raised /\ file = call.env.before)
       /\ ret.raised => ~NonEmptyFile(call.env.before)

\* the run is inside its interactive loop
InLoop == session.interactive /\ pc \in {"prompt", "solving", "displaying", "selecting"}

\* a line without any character but spaces
BlankLine(line) == \A i \in DOMAIN line : line[i] = " "

\* the line, spaces at its ends and case aside, is the exit command of the loop
TypedExitCommand(variant, line) ==
    \E command \in (IF variant = "pkg" THEN { <<"/","e","x","i","t">> }
                    ELSE { <<"e","x","i","t">>, <<"q","u","i","t">>, <<"q">> }) :
       \E i, j \in 0..Len(line) :
          /\ i + Len(command) + j = Len(line)
          /\ BlankLine(SubSeq(line, 1, i))
          /\ BlankLine(SubSeq(line, Len(line) - j + 1, Len(line)))
          /\ Lower(SubSeq(line, i + 1, i + Len(command))) = command

\* the query of the iteration was answered, or its failure was reported
QueryCompleted(printed) ==
    \E i \in DOMAIN printed : printed[i] \in {"results", "no_valid_words", "error"}

(***************************************************************************)
(* C28.  In both interactive loops, for every sequence of inputs: a query  *)
(* is accepted only at the prompt and is processed to completion (its      *)
(* results, "no valid words" or its error printed) before the prompt is    *)
(* issued again; an exception raised while solving or displaying is        *)
(* printed and the loop returns to the prompt; an empty line without a     *)
(* capture window never invokes the solver; and the loop ends only on the  *)
(* exit command ('/exit' in the package, 'exit', 'quit' or 'q' in the      *)
(* standalone script) or on Ctrl+C outside the word-selection prompt.      *)
(***************************************************************************)
C28_LoopProcessesOneQueryAtATime ==
    [][InLoop =>
         /\ pc' = "solving" => pc = "prompt"
         /\ (pc # "prompt" /\ pc' = "prompt") => QueryCompleted(session'.printed)
         /\ session'.queries # session.queries => pc = "solving"
         /\ (pc \in {"solving", "displaying"} /\ session'.event = "exception")
            => /\ pc' = "prompt"
               /\ session'.printed # <<>>
               /\ session'.printed[Len(session'.printed)] = "error"
         /\ (pc = "prompt" /\ session'.event = "line" /\ BlankLine(session'.user_input)
               /\ ~session.window)
            => (pc' = "prompt" /\ UNCHANGED <<call, ret>>)
         /\ pc' = "exited"
            => \/ session'.event = "interrupt" /\ pc # "selecting"
               \/ /\ pc = "prompt"
                  /\ session'.event = "line"
                  /\ TypedExitCommand(session.variant, session'.user_input)]_vars

\* after one query was answered, an exception in the next one was printed and
\* the loop is back at its prompt
C28_Witness ==
    /\ session.interactive
    /\ pc = "prompt"
    /\ session.queries = 2
    /\ session.event = "exception"
    /\ session.printed = <<"error">>

\* the positions <<group, index>> of the entries of a by_length dict
GroupPositions(by_length) ==
    UNION {{<<k, j>> : j \in DOMAIN by_length[k][2]} : k \in DOMAIN by_length}

====
